---- MODULE Spec2Model ----
(***************************************************************************)
(* Model of src/src/main.rs: the benchmark orchestrator.  main checks the  *)
(* local paths and the configuration, then runs every Node of the          *)
(* configuration in order.  Node::run launches the machine (the launcher   *)
(* runs the setup hook: install_deps, write_file, chmod, write_file),      *)
(* connects, runs do_exp (remote script, log, result collection, operator  *)
(* pause) and, for Aws and Azure, calls terminate_all.                     *)
(*                                                                         *)
(* The program is one thread of control; pc is its position.  Every await  *)
(* on the remote session, the launcher, the local file system or stdin is  *)
(* one action whose outcome is chosen nondeterministically.  An unwrap()   *)
(* on None/Err is a panic: it unwinds out of every enclosing function and  *)
(* ends the process.                                                       *)
(***************************************************************************)
EXTENDS Integers, Sequences, FiniteSets, TLC

VARIABLES
    benchBin,      \* shape of opt.bench_bin
    script,        \* shape of opt.script
    cfg,           \* state of the file opt.cfg
    nodes,         \* Vec<Node> the configuration parses to (variant tags)
    pc,            \* position of the single thread of control
    cur,           \* index of the node the for loop of main is at
    exit,          \* "running", "exit0", "exit1" (main returned Err), "panic"
    exitErr,       \* the error main returned ("none" when there is none)
    spawnCalls,    \* calls of spawn made by the current Node::run
    termCalls,     \* calls of terminate_all made by the current Node::run
    trace,         \* launcher calls and the way out of the current Node::run
    spawnRes,      \* result of spawn: "ok" or the error e
    res,           \* result of with_launcher / do_exp: "none", "ok" or an error
    runRes,        \* result of Node::run: "none", "ok" or an error
    count,         \* apt_install: count
    aptRes,        \* apt_install: res of the current attempt
    aptRet,        \* value apt_install returned ("none" while it has not)
    steps,         \* install steps run in the current attempt, with outcome
    hookLog,       \* setup-hook steps finished in the current spawn, with outcome
    status,        \* do_exp: out.status ("none", "zero", "nonzero")
    idx,           \* do_exp: position of the for loop in fnames (1-based)
    gotten,        \* do_exp: gotten
    tot,           \* do_exp: tot
    handleOpen,    \* do_exp: a remote read handle f is open, close() not called
    waited,        \* do_exp: completed calls of wait_for_continue
    summary,       \* do_exp: <<considered, gotten>> logged after the loop
    logs,          \* local files <prov>.log written so far
    dataCount,     \* local exp-*.data files created so far
    remoteTouched, \* a spawn, connect, remote command or transfer was started
    termRes,       \* result of terminate_all in the current Node::run
    launched,      \* indices of the nodes spawn was called for
    live,          \* indices of the nodes whose machine the launcher holds
    opened         \* do_exp: remote read handles opened by the current run

inputs == <<benchBin, script, cfg, nodes>>
mainv  == <<cur, exit, exitErr>>
nodev  == <<spawnCalls, termCalls, trace, spawnRes, res, runRes>>
instv  == <<count, aptRes, aptRet, steps>>
expv   == <<status, idx, gotten, tot, handleOpen, waited, summary>>
localv == <<logs, dataCount>>
auxv   == <<termRes, launched, live, opened>>
vars   == <<benchBin, script, cfg, nodes, pc, cur, exit, exitErr, spawnCalls,
           termCalls, trace, spawnRes, res, runRes, count, aptRes, aptRet, steps,
           hookLog, status, idx, gotten, tot, handleOpen, waited, summary,
           logs, dataCount, remoteTouched, termRes, launched, live, opened>>

(***************************************************************************)
(* Bounds of the model.                                                    *)
(***************************************************************************)
MaxNodes == 2            \* longest configuration list
MaxRemoteFiles == 1      \* most candidate files present on one remote host

(***************************************************************************)
(* Program constants.                                                      *)
(***************************************************************************)
MaxRetries == 15
inter_req_times == <<75>>
num_receivers == <<1, 2, 5, 10>>
num_groups == <<0, 1, 2, 5, 10>>
batch_sizes == <<1, 5, 10>>
batch_types == <<"loop", "opt">>
impls == <<"client", "service">>

NodeKinds == {"Aws", "Azure", "Baremetal"}
Cloud(k) == k \in {"Aws", "Azure"}
\* the provider tag each arm of Node::run passes to do_exp
Prov(k) == CASE k = "Aws" -> "aws" [] k = "Azure" -> "azure" [] OTHER -> "gcp"

\* a local path: absent, present without a final component (".."), present
\* with a final component that is not UTF-8, or present and ordinary
PathKinds == {"missing", "nofilename", "nonutf8", "ok"}
Exists(p) == p # "missing"
FileName(p) == IF p = "nofilename" THEN "None" ELSE "Some"
ToStr(p) == IF p = "nonutf8" THEN "None" ELSE "Some"

RECURSIVE Concat(_)
Concat(ss) == IF ss = <<>> THEN <<>> ELSE Head(ss) \o Concat(Tail(ss))

BeName(prov, inter_req, rcvrs, batch_size, batch_type, imp) ==
    "exp-" \o prov \o "-be-" \o ToString(inter_req) \o "ms-" \o ToString(rcvrs)
    \o "rcvrs-" \o ToString(batch_size) \o "batch-" \o batch_type \o "-" \o imp
    \o ".data"

OrdName(prov, grps, inter_req, rcvrs, batch_size, batch_type, imp) ==
    "exp-" \o prov \o "-ord:" \o ToString(grps) \o "g-" \o ToString(inter_req)
    \o "ms-" \o ToString(rcvrs) \o "rcvrs-" \o ToString(batch_size) \o "batch-"
    \o batch_type \o "-" \o imp \o ".data"

\* the nested for loops of do_exp that fill fnames
fnames(prov) ==
    Concat([i \in 1..Len(inter_req_times) |->
     Concat([b \in 1..Len(batch_sizes) |->
      Concat([t \in 1..Len(batch_types) |->
       Concat([r \in 1..Len(num_receivers) |->
          [m \in 1..Len(impls) |->
              BeName(prov, inter_req_times[i], num_receivers[r],
                     batch_sizes[b], batch_types[t], impls[m])]
          \o
          Concat([g \in 1..Len(num_groups) |->
              [m \in 1..Len(impls) |->
                  OrdName(prov, num_groups[g], inter_req_times[i],
                          num_receivers[r], batch_sizes[b], batch_types[t],
                          impls[m])]])
       ])
      ])
     ])
    ])

Provs == {"aws", "azure", "gcp"}
FnamesOf == [p \in Provs |-> fnames(p)]

CurKind == nodes[cur]

(***************************************************************************)
(* Ways out of Node::run: returning r to main after the launcher calls t,  *)
(* or a panic unwinding through it.                                        *)
(***************************************************************************)
Return(r, t) ==
    /\ pc' = "run_ret"
    /\ runRes' = r
    /\ trace' = t \o <<IF r = "ok" THEN "return_ok" ELSE "return_err">>

Panic ==
    /\ pc' = "exited"
    /\ exit' = "panic"
    /\ trace' = Append(trace, "panic")

NodeSeqs == UNION {[1..n -> NodeKinds] : n \in 0..MaxNodes}

Init ==
    /\ benchBin \in PathKinds
    /\ script \in PathKinds
    /\ cfg \in {"unopenable", "unparsable", "ok"}
    /\ nodes \in NodeSeqs
    /\ (cfg # "ok" => nodes = <<>>)
    /\ pc = "main_start"
    /\ cur = 1
    /\ exit = "running"
    /\ exitErr = "none"
    /\ spawnCalls = 0
    /\ termCalls = 0
    /\ trace = <<>>
    /\ spawnRes = "none"
    /\ res = "none"
    /\ runRes = "none"
    /\ count = 0
    /\ aptRes = "none"
    /\ aptRet = "none"
    /\ steps = <<>>
    /\ hookLog = <<>>
    /\ status = "none"
    /\ idx = 0
    /\ gotten = 0
    /\ tot = 0
    /\ handleOpen = FALSE
    /\ waited = 0
    /\ summary = <<>>
    /\ logs = {}
    /\ dataCount = 0
    /\ remoteTouched = FALSE
    /\ termRes = "none"
    /\ launched = {}
    /\ live = {}
    /\ opened = 0

(***************************************************************************)
(* main                                                                    *)
(***************************************************************************)
\* PreflightErr without the check that the script exists
PreflightErr_NoScriptCheck(b, s, c) ==
    IF ~Exists(b) THEN "Bench binary not found"
    ELSE IF c = "unopenable" THEN "Open cfg file"
    ELSE IF c = "unparsable" THEN "parse cfg file json"
    ELSE "none"

\* the ensure! checks and the loading of the configuration, in order
PreflightErr(b, s, c) ==
    IF ~Exists(b) THEN "Bench binary not found"
    ELSE IF ~Exists(s) THEN "Script path not found"
    ELSE IF c = "unopenable" THEN "Open cfg file"
    ELSE IF c = "unparsable" THEN "parse cfg file json"
    ELSE "none"

Preflight ==
    /\ pc = "main_start"
    /\ IF PreflightErr(benchBin, script, cfg) # "none"
       THEN /\ pc' = "exited"
            /\ exit' = "exit1"
            /\ exitErr' = PreflightErr(benchBin, script, cfg)
       ELSE /\ pc' = "loop"
            /\ UNCHANGED <<exit, exitErr>>
    /\ UNCHANGED <<inputs, cur, nodev, instv, hookLog, expv, localv,
                   remoteTouched>>
    /\ UNCHANGED auxv

\* for n in nodes: the next node starts, or main returns Ok(())
NodeLoop ==
    /\ pc = "loop"
    /\ IF cur > Len(nodes)
       THEN /\ pc' = "exited"
            /\ exit' = "exit0"
            /\ UNCHANGED <<nodev, instv, hookLog, expv, termRes, opened>>
       ELSE /\ pc' = "run_entry"
            /\ spawnCalls' = 0
            /\ termCalls' = 0
            /\ trace' = <<>>
            /\ spawnRes' = "none"
            /\ res' = "none"
            /\ runRes' = "none"
            /\ count' = 0
            /\ aptRes' = "none"
            /\ aptRet' = "none"
            /\ steps' = <<>>
            /\ hookLog' = <<>>
            /\ status' = "none"
            /\ idx' = 0
            /\ gotten' = 0
            /\ tot' = 0
            /\ handleOpen' = FALSE
            /\ waited' = 0
            /\ summary' = <<>>
            /\ termRes' = "none"
            /\ opened' = 0
            /\ exit' = exit
    /\ UNCHANGED <<inputs, cur, exitErr, localv, remoteTouched, launched, live>>

\* RunReturn without the ?: an Err of a run is dropped and the loop goes on
RunReturn_Continue ==
    /\ pc = "run_ret"
    /\ pc' = "loop"
    /\ cur' = cur + 1
    /\ UNCHANGED <<exit, exitErr>>
    /\ UNCHANGED <<inputs, nodev, instv, hookLog, expv, localv, remoteTouched>>
    /\ live' = IF Cloud(CurKind) THEN live ELSE live \ {cur}
    /\ UNCHANGED <<termRes, launched, opened>>

\* n.run(..).await?  The future of the run is dropped with all it holds: for
\* Baremetal that is the launcher and its machine.
RunReturn ==
    /\ pc = "run_ret"
    /\ IF runRes = "ok"
       THEN /\ pc' = "loop"
            /\ cur' = cur + 1
            /\ UNCHANGED <<exit, exitErr>>
       ELSE /\ pc' = "exited"
            /\ exit' = "exit1"
            /\ exitErr' = runRes
            /\ cur' = cur
    /\ UNCHANGED <<inputs, nodev, instv, hookLog, expv, localv, remoteTouched>>
    /\ live' = IF Cloud(CurKind) THEN live ELSE live \ {cur}
    /\ UNCHANGED <<termRes, launched, opened>>

(***************************************************************************)
(* Node::run up to spawn                                                   *)
(***************************************************************************)
\* file_name().unwrap() of both paths and to_str().unwrap() of the bench name
RunEntry ==
    /\ pc = "run_entry"
    /\ IF \/ FileName(benchBin) = "None"
          \/ FileName(script) = "None"
          \/ ToStr(benchBin) = "None"
       THEN Panic /\ runRes' = runRes
       ELSE pc' = "prepare" /\ UNCHANGED <<exit, trace, runRes>>
    /\ UNCHANGED <<inputs, cur, exitErr, spawnCalls, termCalls, spawnRes, res,
                   instv, hookLog, expv, localv, remoteTouched>>
    /\ UNCHANGED auxv

\* what each arm does before spawn: image lookup and region parse (Aws),
\* region parse (Azure), address resolution (Baremetal); each may fail with ?
PrepareErrs(k) ==
    CASE k = "Aws" -> {"ami lookup failed", "region parse failed"}
      [] k = "Azure" -> {"region parse failed"}
      [] OTHER -> {"address resolution failed"}

Prepare ==
    /\ pc = "prepare"
    /\ \/ pc' = "spawn" /\ UNCHANGED <<runRes, trace>>
       \/ \E e \in PrepareErrs(CurKind) : Return(e, trace)
    /\ UNCHANGED <<inputs, mainv, spawnCalls, termCalls, spawnRes, res,
                   instv, hookLog, expv, localv, remoteTouched>>
    /\ UNCHANGED auxv

\* launcher.spawn(..): the provider call fails, or the machine comes up and
\* the launcher runs the setup hook, which starts with install_deps
SpawnCall ==
    /\ pc = "spawn"
    /\ spawnCalls' = spawnCalls + 1
    /\ trace' = Append(trace, "spawn")
    /\ remoteTouched' = TRUE
    /\ \/ /\ pc' = "spawn_ret"
          /\ spawnRes' = "launch failed"
          /\ UNCHANGED <<hookLog, count>>
       \/ /\ pc' = "apt_repo"
          /\ hookLog' = <<>>
          /\ count' = 0
          /\ spawnRes' = spawnRes
    /\ UNCHANGED <<inputs, mainv, termCalls, res, runRes, aptRes, aptRet,
                   steps, expv, localv>>
    /\ launched' = launched \cup {cur}
    /\ live' = live \cup {cur}
    /\ UNCHANGED <<termRes, opened>>

(***************************************************************************)
(* The setup hook: install_deps (apt_install, then pip), write_file of the *)
(* bench binary, chmod, write_file of the script.  A step that fails ends  *)
(* the hook with its error, and spawn returns that error.                  *)
(***************************************************************************)
HookFails(e) ==
    /\ pc' = "spawn_ret"
    /\ spawnRes' = e

\* a step of the hook finished
Done(step, ok) == Append(hookLog, [step |-> step, ok |-> ok])

\* apt_install, loop head and first step: count += 1, add-apt-repository
AptRepoAdd ==
    /\ pc = "apt_repo"
    /\ count' = count + 1
    /\ \/ /\ steps' = <<[step |-> "repo", ok |-> TRUE]>>
          /\ pc' = "apt_pkg"
          /\ aptRes' = aptRes
       \/ /\ steps' = <<[step |-> "repo", ok |-> FALSE]>>
          /\ pc' = "apt_check"
          /\ aptRes' \in {"redis repository add failed",
                          "redis apt-add-repository failed"}
    /\ UNCHANGED <<inputs, mainv, nodev, aptRet, hookLog, expv, localv,
                   remoteTouched>>
    /\ UNCHANGED auxv

\* apt_install, second step: apt update && apt install && redis-server stop
AptPkg ==
    /\ pc = "apt_pkg"
    /\ pc' = "apt_check"
    /\ \/ /\ steps' = Append(steps, [step |-> "apt", ok |-> TRUE])
          /\ aptRes' = "ok"
       \/ /\ steps' = Append(steps, [step |-> "apt", ok |-> FALSE])
          /\ aptRes' = "apt install failed"
    /\ UNCHANGED <<inputs, mainv, nodev, count, aptRet, hookLog, expv, localv,
                   remoteTouched>>
    /\ UNCHANGED auxv

\* GiveUp one attempt early
GiveUp_Early(c) == c > MaxRetries - 1

\* GiveUp one attempt late
GiveUp_Late(c) == c > MaxRetries + 1

\* if count > 15 { return res; }
GiveUp(c) == c > MaxRetries

\* apt_install, end of an attempt: return Ok, give up with res, or sleep and
\* loop.  An Err returned passes through the ? of install_deps and ends the
\* hook.
AptCheck ==
    /\ pc = "apt_check"
    /\ IF aptRes = "ok"
       THEN /\ aptRet' = "ok"
            /\ pc' = "pip"
            /\ UNCHANGED <<spawnRes, hookLog>>
       ELSE IF GiveUp(count)
       THEN /\ aptRet' = aptRes
            /\ HookFails(aptRes)
            /\ hookLog' = Done("install_deps", FALSE)
       ELSE /\ pc' = "apt_repo"
            /\ UNCHANGED <<aptRet, spawnRes, hookLog>>
    /\ UNCHANGED <<inputs, mainv, spawnCalls, termCalls, trace, res, runRes,
                   count, aptRes, steps, expv, localv, remoteTouched>>
    /\ UNCHANGED auxv

\* Pip with a failure of pip treated like a failure of an apt step
Pip_Retried ==
    /\ pc = "pip"
    /\ \/ /\ steps' = <<>>
          /\ count' = 0
          /\ aptRes' = "none"
          /\ pc' = "hook_write_bench"
          /\ hookLog' = Done("install_deps", TRUE)
       \/ /\ steps' = Append(steps, [step |-> "pip", ok |-> FALSE])
          /\ aptRes' = "pip install"
          /\ pc' = "apt_check"
          /\ UNCHANGED <<hookLog, count>>
    /\ UNCHANGED <<inputs, mainv, spawnCalls, termCalls, trace, spawnRes, res,
                   runRes, aptRet, expv, localv, remoteTouched>>
    /\ UNCHANGED auxv

\* install_deps after apt_install: sudo pip3 install agenda, run once.  On
\* Ok(()) install_deps returns and the locals of the installer are gone.
Pip ==
    /\ pc = "pip"
    /\ \/ /\ steps' = <<>>
          /\ count' = 0
          /\ aptRes' = "none"
          /\ pc' = "hook_write_bench"
          /\ hookLog' = Done("install_deps", TRUE)
          /\ spawnRes' = spawnRes
       \/ /\ steps' = Append(steps, [step |-> "pip", ok |-> FALSE])
          /\ HookFails("pip install")
          /\ hookLog' = Done("install_deps", FALSE)
          /\ UNCHANGED <<count, aptRes>>
    /\ UNCHANGED <<inputs, mainv, spawnCalls, termCalls, trace, res, runRes,
                   aptRet, expv, localv, remoteTouched>>
    /\ UNCHANGED auxv

\* write_file: remote open, local open, copy, close; any of them may fail
WriteFileErrs == {"Open remote file for writing", "local open failed",
                  "copy failed", "close failed"}

WriteBench ==
    /\ pc = "hook_write_bench"
    /\ \/ /\ pc' = "hook_chmod"
          /\ hookLog' = Done("write_bench", TRUE)
          /\ spawnRes' = spawnRes
       \/ /\ \E e \in WriteFileErrs : HookFails(e)
          /\ hookLog' = Done("write_bench", FALSE)
    /\ UNCHANGED <<inputs, mainv, spawnCalls, termCalls, trace, res, runRes,
                   instv, expv, localv, remoteTouched>>
    /\ UNCHANGED auxv

\* Chmod without the ensure!: a non-zero status of chmod is passed over
Chmod_NoEnsure ==
    /\ pc = "hook_chmod"
    /\ \/ /\ pc' = "hook_write_script"
          /\ hookLog' \in {Done("chmod", TRUE), Done("chmod", FALSE)}
          /\ spawnRes' = spawnRes
       \/ /\ HookFails("chmod transport failed")
          /\ hookLog' = Done("chmod", FALSE)
    /\ UNCHANGED <<inputs, mainv, spawnCalls, termCalls, trace, res, runRes,
                   instv, expv, localv, remoteTouched>>
    /\ UNCHANGED auxv

\* vm.ssh.shell(&chmod_cmd).status().await?; ensure!(ok.success(), ..)
Chmod ==
    /\ pc = "hook_chmod"
    /\ \/ /\ pc' = "hook_write_script"
          /\ hookLog' = Done("chmod", TRUE)
          /\ spawnRes' = spawnRes
       \/ /\ \E e \in {"chmod transport failed", "chmod bench"} : HookFails(e)
          /\ hookLog' = Done("chmod", FALSE)
    /\ UNCHANGED <<inputs, mainv, spawnCalls, termCalls, trace, res, runRes,
                   instv, expv, localv, remoteTouched>>
    /\ UNCHANGED auxv

WriteScript ==
    /\ pc = "hook_write_script"
    /\ \/ /\ HookFails("ok")
          /\ hookLog' = Done("write_script", TRUE)
       \/ /\ \E e \in WriteFileErrs : HookFails(e)
          /\ hookLog' = Done("write_script", FALSE)
    /\ UNCHANGED <<inputs, mainv, spawnCalls, termCalls, trace, res, runRes,
                   instv, expv, localv, remoteTouched>>
    /\ UNCHANGED auxv

(***************************************************************************)
(* Node::run after spawn                                                   *)
(***************************************************************************)
\* SpawnFailedCloud returning e without the call of terminate_all
SpawnFailedCloud_NoTerminate ==
    /\ pc = "spawn_ret"
    /\ spawnRes # "ok"
    /\ Cloud(CurKind)
    /\ Return(spawnRes, trace)
    /\ UNCHANGED <<inputs, mainv, spawnCalls, termCalls, spawnRes, res, instv,
                   hookLog, expv, localv, remoteTouched>>
    /\ UNCHANGED auxv

\* SpawnFailedCloud with Ok(()) returned once the cleanup succeeded
SpawnFailedCloud_Swallows ==
    /\ pc = "spawn_ret"
    /\ spawnRes # "ok"
    /\ Cloud(CurKind)
    /\ termCalls' = termCalls + 1
    /\ \/ /\ termRes' = "ok"
          /\ live' = live \ {cur}
          /\ Return("ok", Append(trace, "terminate_all"))
       \/ /\ termRes' = "err"
          /\ live' = live
          /\ Return("terminate failed", Append(trace, "terminate_all"))
    /\ UNCHANGED <<inputs, mainv, spawnCalls, spawnRes, res, instv, hookLog,
                   expv, localv, remoteTouched>>
    /\ UNCHANGED <<launched, opened>>

\* if let Err(e) = spawn(..) { terminate_all().await?; return Err(e); }
\* for Aws and Azure: terminate_all is called, its error returned by ?,
\* otherwise e is returned
SpawnFailedCloud ==
    /\ pc = "spawn_ret"
    /\ spawnRes # "ok"
    /\ Cloud(CurKind)
    /\ termCalls' = termCalls + 1
    /\ \/ /\ termRes' = "ok"
          /\ live' = live \ {cur}
          /\ Return(spawnRes, Append(trace, "terminate_all"))
       \/ /\ termRes' = "err"
          /\ live' = live
          /\ Return("terminate failed", Append(trace, "terminate_all"))
    /\ UNCHANGED <<inputs, mainv, spawnCalls, spawnRes, res, instv, hookLog,
                   expv, localv, remoteTouched>>
    /\ UNCHANGED <<launched, opened>>

\* launcher.spawn(..).await? for Baremetal
SpawnFailedBaremetal ==
    /\ pc = "spawn_ret"
    /\ spawnRes # "ok"
    /\ ~Cloud(CurKind)
    /\ Return(spawnRes, trace)
    /\ UNCHANGED <<inputs, mainv, spawnCalls, termCalls, spawnRes, res, instv,
                   hookLog, expv, localv, remoteTouched>>
    /\ UNCHANGED auxv

\* AfterExp with every variant going on to terminate_all
AfterExp_AlwaysTerminate(r) ==
    /\ res' = r
    /\ pc' = "term_after"
    /\ UNCHANGED <<runRes, trace>>

\* do_exp (or connect_all) ended with r: Baremetal returns it, Aws and Azure
\* keep it in res and go on to terminate_all
AfterExp(r) ==
    IF Cloud(CurKind)
    THEN /\ res' = r
         /\ pc' = "term_after"
         /\ UNCHANGED <<runRes, trace>>
    ELSE /\ res' = r
         /\ Return(r, trace)

\* do_exp returns from inside or after its for loop: the locals of the loop
\* are gone
DropLocals ==
    /\ idx' = 0
    /\ gotten' = 0
    /\ tot' = 0

\* ConnectAll without regard to the result of spawn
ConnectAll_AfterFailedSpawn ==
    /\ pc = "spawn_ret"
    /\ \/ pc' = "exp_cmd" /\ UNCHANGED <<res, runRes, trace>>
       \/ AfterExp("connect failed")
    /\ UNCHANGED <<inputs, mainv, spawnCalls, termCalls, spawnRes, instv,
                   hookLog, expv, localv, remoteTouched>>
    /\ UNCHANGED auxv

\* launcher.connect_all().await? (in with_launcher for Aws and Azure)
ConnectAll ==
    /\ pc = "spawn_ret"
    /\ spawnRes = "ok"
    /\ \/ pc' = "exp_cmd" /\ UNCHANGED <<res, runRes, trace>>
       \/ AfterExp("connect failed")
    /\ UNCHANGED <<inputs, mainv, spawnCalls, termCalls, spawnRes, instv,
                   hookLog, expv, localv, remoteTouched>>
    /\ UNCHANGED auxv

\* TerminateAfterExp without the ?: res is returned whatever terminate_all
\* returned
TerminateAfterExp_IgnoreErr ==
    /\ pc = "term_after"
    /\ termCalls' = termCalls + 1
    /\ \/ /\ termRes' = "ok"
          /\ live' = live \ {cur}
       \/ /\ termRes' = "err"
          /\ live' = live
    /\ Return(res, Append(trace, "terminate_all"))
    /\ UNCHANGED <<inputs, mainv, spawnCalls, spawnRes, res, instv, hookLog,
                   expv, localv, remoteTouched>>
    /\ UNCHANGED <<launched, opened>>

\* TerminateAfterExp with res returned and terminate_all left out
TerminateAfterExp_Skipped ==
    /\ pc = "term_after"
    /\ Return(res, trace)
    /\ UNCHANGED <<inputs, mainv, spawnCalls, termCalls, spawnRes, res, instv,
                   hookLog, expv, localv, remoteTouched>>
    /\ UNCHANGED auxv

\* launcher.terminate_all().await?; res
TerminateAfterExp ==
    /\ pc = "term_after"
    /\ termCalls' = termCalls + 1
    /\ \/ /\ termRes' = "ok"
          /\ live' = live \ {cur}
          /\ Return(res, Append(trace, "terminate_all"))
       \/ /\ termRes' = "err"
          /\ live' = live
          /\ Return("terminate failed", Append(trace, "terminate_all"))
    /\ UNCHANGED <<inputs, mainv, spawnCalls, spawnRes, res, instv, hookLog,
                   expv, localv, remoteTouched>>
    /\ UNCHANGED <<launched, opened>>

(***************************************************************************)
(* do_exp                                                                  *)
(***************************************************************************)
\* the command is built (to_str().unwrap() of the script name), run, and a
\* non-zero status prints String::from_utf8(out.stderr).unwrap()
DoExpCmd ==
    /\ pc = "exp_cmd"
    /\ IF ToStr(script) = "None"
       THEN Panic /\ UNCHANGED <<status, res, runRes>>
       ELSE \/ /\ AfterExp("command failed")         \* cmd.output().await?
               /\ UNCHANGED <<status, exit>>
            \/ /\ status' \in {"zero", "nonzero"}     \* stderr is UTF-8
               /\ pc' = "exp_log"
               /\ UNCHANGED <<res, runRes, trace, exit>>
            \/ /\ status' = "nonzero"                 \* stderr is not UTF-8
               /\ Panic
               /\ UNCHANGED <<res, runRes>>
    /\ UNCHANGED <<inputs, cur, exitErr, spawnCalls, termCalls, spawnRes,
                   instv, hookLog, idx, gotten, tot, handleOpen, waited, summary,
                   localv, remoteTouched>>
    /\ UNCHANGED auxv

\* WriteLog with the log written under the name of the node variant
WriteLog_VariantName ==
    /\ pc = "exp_log"
    /\ \/ /\ AfterExp("log write failed")
          /\ UNCHANGED <<logs, idx, gotten, tot>>
       \/ /\ logs' = logs \cup {CurKind}
          /\ tot' = Len(FnamesOf[Prov(CurKind)])
          /\ gotten' = 0
          /\ idx' = 1
          /\ pc' = "col_open"
          /\ UNCHANGED <<res, runRes, trace>>
    /\ UNCHANGED <<inputs, mainv, spawnCalls, termCalls, spawnRes, instv,
                   hookLog, status, handleOpen, waited, summary, dataCount,
                   remoteTouched>>
    /\ UNCHANGED auxv

\* tokio::fs::write("<prov>.log", out.stdout).await?, then fnames is built,
\* tot = fnames.len(), gotten = 0 and the for loop starts
WriteLog ==
    /\ pc = "exp_log"
    /\ \/ /\ AfterExp("log write failed")
          /\ UNCHANGED <<logs, idx, gotten, tot>>
       \/ /\ logs' = logs \cup {Prov(CurKind)}
          /\ tot' = Len(FnamesOf[Prov(CurKind)])
          /\ gotten' = 0
          /\ idx' = 1
          /\ pc' = "col_open"
          /\ UNCHANGED <<res, runRes, trace>>
    /\ UNCHANGED <<inputs, mainv, spawnCalls, termCalls, spawnRes, instv,
                   hookLog, status, handleOpen, waited, summary, dataCount,
                   remoteTouched>>
    /\ UNCHANGED auxv

\* ColOpen with sftp.read_from(&fname).await? : the error ends do_exp
ColOpen_Abort ==
    /\ pc = "col_open"
    /\ idx <= tot
    /\ \/ /\ IF Cloud(CurKind)
             THEN /\ res' = "file error"
                  /\ pc' = "term_after"
                  /\ UNCHANGED <<runRes, trace>>
             ELSE /\ res' = "file error"
                  /\ Return("file error", trace)
          /\ idx' = 0 /\ gotten' = 0 /\ tot' = 0
          /\ UNCHANGED <<handleOpen, opened>>
       \/ /\ gotten < MaxRemoteFiles
          /\ handleOpen' = TRUE
          /\ opened' = opened + 1
          /\ pc' = "col_create"
          /\ UNCHANGED <<idx, gotten, tot, res, runRes, trace>>
    /\ UNCHANGED <<inputs, mainv, spawnCalls, termCalls, spawnRes, instv,
                   hookLog, status, waited, summary, localv, remoteTouched>>
    /\ UNCHANGED <<termRes, launched, live>>

\* ColOpen with a break in the Err branch: the remaining names are skipped
ColOpen_Break ==
    /\ pc = "col_open"
    /\ idx <= tot
    /\ \/ /\ idx' = tot + 1
          /\ UNCHANGED <<pc, handleOpen, opened>>
       \/ /\ gotten < MaxRemoteFiles
          /\ handleOpen' = TRUE
          /\ opened' = opened + 1
          /\ pc' = "col_create"
          /\ idx' = idx
    /\ UNCHANGED <<inputs, mainv, nodev, instv, hookLog, status, gotten, tot,
                   waited, summary, localv, remoteTouched>>
    /\ UNCHANGED <<termRes, launched, live>>

\* sftp.read_from(&fname).await: Err (file absent or transport error) is
\* logged and the loop goes to the next name; Ok gives the handle f
ColOpen ==
    /\ pc = "col_open"
    /\ idx <= tot
    /\ \/ /\ idx' = idx + 1
          /\ UNCHANGED <<pc, handleOpen, opened>>
       \/ /\ gotten < MaxRemoteFiles
          /\ handleOpen' = TRUE
          /\ opened' = opened + 1
          /\ pc' = "col_create"
          /\ idx' = idx
    /\ UNCHANGED <<inputs, mainv, nodev, instv, hookLog, status, gotten, tot,
                   waited, summary, localv, remoteTouched>>
    /\ UNCHANGED <<termRes, launched, live>>

\* tokio::fs::File::create(&fname).await?
ColCreate ==
    /\ pc = "col_create"
    /\ \/ /\ AfterExp("local create failed")
          /\ DropLocals
          /\ UNCHANGED dataCount
       \/ /\ dataCount' = dataCount + 1
          /\ pc' = "col_copy"
          /\ UNCHANGED <<res, runRes, trace, idx, gotten, tot>>
    /\ UNCHANGED <<inputs, mainv, spawnCalls, termCalls, spawnRes, instv,
                   hookLog, status, handleOpen, waited, summary, logs,
                   remoteTouched>>
    /\ UNCHANGED auxv

\* tokio::io::copy(&mut f, &mut local).await?
ColCopy ==
    /\ pc = "col_copy"
    /\ \/ AfterExp("copy failed") /\ DropLocals
       \/ pc' = "col_close" /\ UNCHANGED <<res, runRes, trace, idx, gotten, tot>>
    /\ UNCHANGED <<inputs, mainv, spawnCalls, termCalls, spawnRes, instv,
                   hookLog, status, handleOpen, waited, summary, localv,
                   remoteTouched>>
    /\ UNCHANGED auxv

\* ColClose without the call of close: the handle stays open
ColClose_NoClose ==
    /\ pc = "col_close"
    /\ gotten' = gotten + 1
    /\ idx' = idx + 1
    /\ pc' = "col_open"
    /\ UNCHANGED <<res, runRes, trace, tot, handleOpen>>
    /\ UNCHANGED <<inputs, mainv, spawnCalls, termCalls, spawnRes, instv,
                   hookLog, status, waited, summary, localv, remoteTouched>>
    /\ UNCHANGED auxv

\* f.close().await?; gotten += 1; and on to the next name
ColClose ==
    /\ pc = "col_close"
    /\ \/ /\ AfterExp("close failed")
          /\ DropLocals
          /\ handleOpen' = FALSE
       \/ /\ handleOpen' = FALSE
          /\ gotten' = gotten + 1
          /\ idx' = idx + 1
          /\ pc' = "col_open"
          /\ UNCHANGED <<res, runRes, trace, tot>>
    /\ UNCHANGED <<inputs, mainv, spawnCalls, termCalls, spawnRes, instv,
                   hookLog, status, waited, summary, localv, remoteTouched>>
    /\ UNCHANGED auxv

\* ColDone with Ok(()) returned right after the loop, wait_for_continue
\* left out
ColDone_NoPause ==
    /\ pc = "col_open"
    /\ idx > tot
    /\ summary' = <<tot, gotten>>
    /\ AfterExp("ok")
    /\ DropLocals
    /\ UNCHANGED <<inputs, mainv, spawnCalls, termCalls, spawnRes, instv,
                   hookLog, status, handleOpen, waited, localv, remoteTouched>>
    /\ UNCHANGED auxv

\* the for loop is over: info!(considered = ?tot, ?gotten, ..)
ColDone ==
    /\ pc = "col_open"
    /\ idx > tot
    /\ pc' = "exp_wait"
    /\ summary' = <<tot, gotten>>
    /\ UNCHANGED <<inputs, mainv, nodev, instv, hookLog, status, idx, gotten,
                   tot, handleOpen, waited, localv, remoteTouched>>
    /\ UNCHANGED auxv

\* wait_for_continue(): a line is read from stdin and do_exp returns Ok(()),
\* or stdin is at end of file or fails and an unwrap() panics
WaitForContinue ==
    /\ pc = "exp_wait"
    /\ \/ /\ waited' = waited + 1
          /\ AfterExp("ok")
          /\ DropLocals
          /\ exit' = exit
       \/ /\ Panic
          /\ UNCHANGED <<waited, res, runRes, idx, gotten, tot>>
    /\ UNCHANGED <<inputs, cur, exitErr, spawnCalls, termCalls, spawnRes,
                   instv, hookLog, status, handleOpen, summary, localv,
                   remoteTouched>>
    /\ UNCHANGED auxv

Next ==
    \/ Preflight
    \/ NodeLoop
    \/ RunReturn
    \/ RunEntry
    \/ Prepare
    \/ SpawnCall
    \/ AptRepoAdd
    \/ AptPkg
    \/ AptCheck
    \/ Pip
    \/ WriteBench
    \/ Chmod
    \/ WriteScript
    \/ SpawnFailedCloud
    \/ SpawnFailedBaremetal
    \/ ConnectAll
    \/ TerminateAfterExp
    \/ DoExpCmd
    \/ WriteLog
    \/ ColOpen
    \/ ColCreate
    \/ ColCopy
    \/ ColClose
    \/ ColDone
    \/ WaitForContinue

Spec == Init /\ [][Next]_vars

(***************************************************************************)
(* Properties                                                              *)
(***************************************************************************)
\* the current Node::run has been left: it returned or a panic unwound it
LeftRun ==
    /\ pc \in {"run_ret", "exited"}
    /\ cur <= Len(nodes)
    /\ trace # <<>>
    /\ trace[Len(trace)] \in {"return_ok", "return_err", "panic"}

\* positions inside the for loop of do_exp
ColPcs == {"col_open", "col_create", "col_copy", "col_close"}

\* C1: every way out of Node::run of an Aws or Azure node has called
\* terminate_all exactly once per call of spawn (and never twice).
C1_TerminateOncePerSpawn ==
    (LeftRun /\ Cloud(CurKind)) => termCalls = spawnCalls

\* C2: when spawn failed for an Aws or Azure node, terminate_all is called
\* after spawn and before Node::run returns the error.
C2_TerminateBeforeError ==
    (LeftRun /\ Cloud(CurKind) /\ spawnRes \notin {"none", "ok"}) =>
        /\ trace = <<"spawn", "terminate_all", "return_err">>
        /\ termCalls = 1

C2_Witness ==
    /\ pc = "run_ret"
    /\ Cloud(CurKind)
    /\ spawnRes = "launch failed"
    /\ runRes = "launch failed"
    /\ termCalls = 1

\* C3: apt_install returns Ok as soon as an attempt succeeds after at most 15
\* failed ones; it goes on retrying while at most 15 attempts have failed;
\* when the 16th attempt fails it returns the error of that attempt; and
\* once it has returned no further attempt is made.
C3_InstallOutcome ==
    [][ /\ (pc = "apt_check" /\ aptRes = "ok" /\ count - 1 <= MaxRetries)
            => (aptRet' = "ok" /\ pc' = "pip")
        /\ (pc = "apt_check" /\ aptRes # "ok" /\ count <= MaxRetries)
            => (aptRet' = "none" /\ pc' = "apt_repo")
        /\ (pc = "apt_check" /\ aptRes # "ok" /\ count > MaxRetries)
            => (aptRet' = aptRes /\ spawnRes' = aptRes /\ pc' = "spawn_ret")
        /\ (aptRet # "none") =>
              (count' <= count /\ pc' \notin {"apt_repo", "apt_pkg", "apt_check"})
      ]_vars

C3_Witness ==
    /\ pc = "pip"
    /\ aptRet = "ok"
    /\ count = MaxRetries + 1

\* C4 as claimed: the attempt counter of apt_install never exceeds 15.
C4_Original == count <= MaxRetries

\* C4 amended: the attempt counter of apt_install never exceeds 16, and
\* apt_install gives up only when the 16th attempt has failed.
C4_AttemptBound ==
    /\ count <= MaxRetries + 1
    /\ (aptRet \notin {"none", "ok"}) => count = MaxRetries + 1

C4_Witness ==
    /\ pc = "spawn_ret"
    /\ count = MaxRetries + 1
    /\ aptRet = "apt install failed"
    /\ spawnRes = "apt install failed"

\* C5 as claimed: a failed step of the installer (pip included) ends the
\* installer only when the attempts are used up; otherwise the sequence
\* restarts.
C5_Original ==
    (pc = "spawn_ret" /\ steps # <<>> /\ ~steps[Len(steps)].ok)
        => count > MaxRetries

\* C5 amended: the two apt steps are retried as one unit and a failure of
\* either ends the installer only when the attempts are used up; pip runs
\* once, only after the apt unit succeeded, and its failure ends the
\* installer at once; within an attempt the steps run in order, each only
\* if every earlier one succeeded, and an attempt starts at the first step.
StepOrder == <<"repo", "apt", "pip">>

C5_RetryUnit ==
    /\ Len(steps) <= 3
    /\ \A i \in 1..Len(steps) :
          /\ steps[i].step = StepOrder[i]
          /\ (i < Len(steps)) => steps[i].ok
    /\ (steps # <<>> /\ ~steps[Len(steps)].ok) =>
          IF steps[Len(steps)].step = "pip"
          THEN /\ pc \notin {"apt_repo", "apt_pkg", "apt_check", "pip"}
               /\ spawnRes = "pip install"
               /\ aptRet = "ok"
          ELSE \/ pc = "apt_check"
               \/ pc = "apt_repo" /\ count <= MaxRetries
               \/ count = MaxRetries + 1 /\ spawnRes = aptRes

C5_Witness ==
    /\ pc = "spawn_ret"
    /\ spawnRes = "pip install"
    /\ count = 2
    /\ Len(steps) = 3

\* the errors do_exp returns from inside its for loop
CollectErrs == {"local create failed", "copy failed", "close failed"}

\* C6 as claimed: gotten <= tot, and result collection, once started, is
\* left only when every candidate name was visited.
C6_Original ==
    /\ [](gotten <= tot)
    /\ [][(pc \in ColPcs /\ pc' \notin ColPcs)
              => (pc' = "exp_wait" /\ idx = tot + 1)]_vars

\* C6 amended: gotten <= tot in every state; a candidate that does not open
\* never ends collection; collection visits every candidate name and
\* completes unless the local create, the copy or the close of a file that
\* did open fails, and then do_exp ends with that error.
C6_Collection ==
    /\ [](/\ gotten <= tot
          /\ (pc \in ColPcs) => (gotten <= idx - 1 /\ idx <= tot + 1)
          /\ (pc = "exp_wait") =>
                /\ idx = tot + 1
                /\ tot = Len(FnamesOf[Prov(CurKind)])
                /\ summary = <<tot, gotten>>)
    /\ [][(pc \in ColPcs /\ pc' \notin ColPcs)
              => \/ pc' = "exp_wait" /\ idx = tot + 1
                 \/ handleOpen /\ res' \in CollectErrs]_vars

C6_Witness ==
    /\ pc = "exp_wait"
    /\ gotten = 1
    /\ idx = tot + 1

\* C7 as claimed: an error of the streaming or of the close of a result file
\* never makes do_exp return an error.
C7_Original == res \notin {"copy failed", "close failed"}

\* C7 amended: a failure of the remote open of a result file never ends
\* collection: the loop goes on to the next name and nothing is returned
\* because of it.  An error of the local create, the copy or the close of a
\* file that did open is returned by do_exp at once, the remaining names
\* unvisited.
C7_OpenFailureSkipped ==
    [][ /\ (pc = "col_open" /\ idx <= tot /\ ~handleOpen') =>
              /\ pc' = "col_open"
              /\ idx' = idx + 1
              /\ UNCHANGED <<res, runRes, gotten, tot, exit>>
        /\ (pc \in {"col_create", "col_copy", "col_close"}
              /\ pc' \notin {"col_copy", "col_close", "col_open"})
              => /\ res' \in CollectErrs
                 /\ pc' \in {"term_after", "run_ret"}
                 /\ summary' = <<>>
      ]_vars

C7_Witness ==
    /\ pc = "col_open"
    /\ gotten = 1
    /\ idx = 4

\* C8: a non-zero exit status of the remote script never stops do_exp: the
\* step after the command is the write of the log.
C8_NonZeroContinues ==
    [][(pc = "exp_cmd" /\ status' = "nonzero") => pc' = "exp_log"]_vars

\* C9: the run of a Baremetal node never calls terminate_all.
C9_BaremetalNeverTerminates ==
    (pc \notin {"main_start", "loop"} /\ cur <= Len(nodes) /\ ~Cloud(CurKind))
        => (termCalls = 0 /\ \A i \in 1..Len(trace) : trace[i] # "terminate_all")

C9_Witness ==
    /\ pc = "run_ret"
    /\ ~Cloud(CurKind)
    /\ runRes = "ok"
    /\ waited = 1

\* C10: when the bench binary or the script is missing, or the configuration
\* cannot be opened or parsed, the process ends with a non-zero exit and no
\* node is launched.
C10_PreflightFailsFast ==
    (~Exists(benchBin) \/ ~Exists(script) \/ cfg # "ok") =>
        /\ ~remoteTouched
        /\ spawnCalls = 0
        /\ pc \in {"main_start", "exited"}
        /\ (pc = "exited") => (exit = "exit1" /\ exitErr # "none")

C10_Witness ==
    /\ pc = "exited"
    /\ Exists(benchBin)
    /\ ~Exists(script)
    /\ cfg = "ok"
    /\ Len(nodes) > 0

\* positions inside do_exp
ExpPcs == {"exp_cmd", "exp_log", "exp_wait"} \cup ColPcs

\* C11: an Err of a node's run ends the batch at that node: main exits
\* non-zero with that error, no later node is launched, and the local log
\* and data files written so far stay (local files are never removed).
C11_BatchStops ==
    /\ [][(pc = "run_ret" /\ runRes # "ok") =>
            /\ pc' = "exited"
            /\ exit' = "exit1"
            /\ exitErr' = runRes
            /\ UNCHANGED <<cur, logs, dataCount, launched>>]_vars
    /\ []((pc = "exited" /\ exit = "exit1" /\ LeftRun) =>
            /\ launched \subseteq 1..cur
            /\ \A i \in 1..(cur - 1) : Prov(nodes[i]) \in logs)
    /\ [][logs \subseteq logs' /\ dataCount' >= dataCount]_vars

C11_Witness ==
    /\ pc = "exited"
    /\ exit = "exit1"
    /\ cur = 2
    /\ exitErr = runRes
    /\ runRes = "pip install"
    /\ Prov(nodes[1]) \in logs
    /\ dataCount = 1
    /\ launched = {1, 2}

C13_FailedSpawnWritesNothing ==
    /\ [][(logs' # logs \/ dataCount' # dataCount) =>
            (spawnRes = "ok" /\ pc \in {"exp_log", "col_create"})]_vars
    /\ [](spawnRes \notin {"none", "ok"} =>
            /\ pc \in {"spawn_ret", "run_ret", "exited"}
            /\ status = "none"
            /\ summary = <<>>
            /\ (pc = "run_ret" => runRes # "ok")
            /\ (pc = "exited" => exit = "exit1"))

C13_Witness ==
    /\ pc = "exited"
    /\ exit = "exit1"
    /\ nodes = <<"Aws">>
    /\ spawnRes = "launch failed"
    /\ termCalls = 1
    /\ logs = {}
    /\ dataCount = 0

\* C15: when terminate_all failed for an Aws or Azure node (after a failed
\* spawn or after the experiment), Node::run returns an error and the
\* process exits non-zero, also when do_exp had returned Ok.
C15_TerminateFailureFatal ==
    (termRes = "err") =>
        /\ pc \in {"run_ret", "exited"}
        /\ runRes = "terminate failed"
        /\ (pc = "exited" => (exit = "exit1" /\ exitErr = "terminate failed"))

C15_Witness ==
    /\ termRes = "err"
    /\ res = "ok"
    /\ waited = 1
    /\ pc = "exited"
    /\ exit = "exit1"

\* C16 as claimed: after a failed spawn of an Aws or Azure node, Node::run
\* returns the error of spawn, whatever terminate_all returned.
C16_Original ==
    (pc = "run_ret" /\ Cloud(CurKind) /\ spawnRes \notin {"none", "ok"})
        => runRes = spawnRes

\* C16 amended: after a failed spawn of an Aws or Azure node, Node::run
\* returns the error of spawn when terminate_all succeeded, and the error
\* of terminate_all when that call failed; it never returns Ok.
C16_LaunchErrorResurfaced ==
    (pc = "run_ret" /\ Cloud(CurKind) /\ spawnRes \notin {"none", "ok"})
        => /\ termRes \in {"ok", "err"}
           /\ runRes = IF termRes = "ok" THEN spawnRes ELSE "terminate failed"
           /\ runRes # "ok"

C16_Witness ==
    /\ pc = "run_ret"
    /\ Cloud(CurKind)
    /\ spawnRes = "launch failed"
    /\ termRes = "err"
    /\ runRes = "terminate failed"

\* C17: for every node variant the setup hook runs install_deps, write_file
\* of the bench binary, chmod, write_file of the script in that order; a
\* step runs only after every earlier one succeeded, and a step that fails
\* ends the hook (and spawn) with an error, no later step run.
HookOrder == <<"install_deps", "write_bench", "chmod", "write_script">>
HookPcs == {"apt_repo", "apt_pkg", "apt_check", "pip", "hook_write_bench",
            "hook_chmod", "hook_write_script"}

C17_HookOrder ==
    /\ Len(hookLog) <= Len(HookOrder)
    /\ \A i \in 1..Len(hookLog) :
          /\ hookLog[i].step = HookOrder[i]
          /\ (i < Len(hookLog)) => hookLog[i].ok
    /\ (hookLog # <<>> /\ ~hookLog[Len(hookLog)].ok) =>
          (pc \notin HookPcs /\ spawnRes \notin {"none", "ok"})
    /\ (pc \in {"apt_repo", "apt_pkg", "apt_check", "pip"}) => Len(hookLog) = 0
    /\ (pc = "hook_write_bench") => Len(hookLog) = 1
    /\ (pc = "hook_chmod") => Len(hookLog) = 2
    /\ (pc = "hook_write_script") => Len(hookLog) = 3
    /\ (spawnRes = "ok") =>
          (Len(hookLog) = 4 /\ \A i \in 1..4 : hookLog[i].ok)

C17_Witness ==
    /\ pc = "spawn_ret"
    /\ CurKind = "Baremetal"
    /\ spawnRes = "chmod bench"
    /\ Len(hookLog) = 3
    /\ ~hookLog[3].ok

\* C18: nodes are run one after another in list order: spawn is called for
\* node cur only when it was called for every earlier node and none of
\* them is still held; at most one node is live at any time, and it is the
\* current one.
C18_OneNodeAtATime ==
    /\ [](Cardinality(live) <= 1 /\ live \subseteq {cur})
    /\ [][(launched' # launched) =>
            /\ pc = "spawn"
            /\ live = {}
            /\ launched = 1..(cur - 1)
            /\ launched' = 1..cur]_vars

C18_Witness ==
    /\ pc = "exp_wait"
    /\ cur = 2
    /\ Cloud(nodes[1])
    /\ Cloud(nodes[2])
    /\ launched = {1, 2}
    /\ live = {2}

C20_PauseBeforeTerminate ==
    /\ [](waited <= 1)
    /\ []((pc = "exp_wait") =>
            /\ waited = 0
            /\ termCalls = 0
            /\ idx = tot + 1
            /\ cur \in live)
    /\ []((res = "ok") => waited = 1)
    /\ []((summary # <<>> /\ termCalls > 0) => waited = 1)
    /\ [][(pc = "exp_wait" /\ pc' # "exp_wait") =>
            (waited' = 1 \/ (exit' = "panic" /\ termCalls' = 0))]_vars
    /\ [][(waited' > waited) => pc = "exp_wait"]_vars

C20_Witness ==
    /\ pc = "run_ret"
    /\ Cloud(CurKind)
    /\ summary # <<>>
    /\ waited = 1
    /\ termCalls = 1
    /\ termRes = "ok"
    /\ runRes = "ok"

====
